---------------------------- MODULE Spec2Model ----------------------------
(***************************************************************************)
(* Model of the tech-insights "dynamic entity" fact retrievers:            *)
(*   - createDynamicEntityFactRetriever (the factory, its presets and its  *)
(*     default instance), and                                              *)
(*   - the statically declared dynamicEntityFactRetriever.                 *)
(* A handler obtains a catalog token, queries the catalog once and maps    *)
(* every returned entity to a fact record.                                 *)
(*                                                                         *)
(* JavaScript values are tagged records [t |-> <typeof-like tag>, v |-> _] *)
(* so that undefined, null, strings, objects and arrays stay distinct and  *)
(* the operators ||, Boolean(), .length and Object.keys() are computed as  *)
(* the runtime computes them.  Objects are functions from their own keys;  *)
(* an absent property is a key outside the DOMAIN.                         *)
(***************************************************************************)
EXTENDS Naturals, Sequences, FiniteSets, TLC

VARIABLES
    descriptors,  \* the exported FactRetriever objects, by export name
    pc,           \* per invocation: where the async handler is suspended
    desc,         \* per invocation: export name of the invoked descriptor
    ctx,          \* per invocation: the FactRetrieverContext it was given
    token,        \* per invocation: the catalog token once obtained
    calls,        \* per invocation: external calls issued so far, in order
    query,        \* per invocation: first argument of getEntities
    items,        \* per invocation: entities.items of the fetch response
    returned,     \* per invocation: value the handler's promise resolved to
    error,        \* per invocation: reason the handler's promise rejected
    logs,         \* per invocation: logger.info calls, in order
    tEntity,      \* map callback under test: its input entity
    tRecord       \* map callback under test: per retriever, its outcome

vars == <<descriptors, pc, desc, ctx, token, calls, query, items, returned,
          error, logs, tEntity, tRecord>>

handlerVars == <<descriptors, pc, desc, ctx, token, calls, query, items,
                 returned, error, logs>>

transformVars == <<tEntity, tRecord>>

(***************************************************************************)
(* Bounds of the model.                                                    *)
(***************************************************************************)
MaxItems == 2        \* longest entities.items a catalog response carries
MaxRelations == 3    \* longest entity.relations of a tested entity
MaxClock == 1        \* DateTime.now() reads a tick in 0..MaxClock

Invocations == {"inv1", "inv2"}   \* concurrently pending handler invocations

(***************************************************************************)
(* JavaScript values and the runtime operations the code uses.             *)
(***************************************************************************)
Undefined == [t |-> "undefined"]
Null == [t |-> "null"]
Str(s) == [t |-> "string", v |-> s]
Num(n) == [t |-> "number", v |-> n]
Bool(b) == [t |-> "boolean", v |-> b]
Obj(f) == [t |-> "object", v |-> f]
Arr(s) == [t |-> "array", v |-> s]
EmptyObject == Obj(<<>>)
EmptyArray == Arr(<<>>)
TypeError == [t |-> "throw", v |-> "TypeError"]

IsNullish(x) == x.t \in {"undefined", "null"}

\* ToBoolean: undefined, null, "", 0 and false are falsy, all else truthy.
Truthy(x) ==
    CASE x.t \in {"undefined", "null"} -> FALSE
      [] x.t = "string" -> x.v # ""
      [] x.t = "number" -> x.v # 0
      [] x.t = "boolean" -> x.v
      [] OTHER -> TRUE

\* a || b
Or(a, b) == IF Truthy(a) THEN a ELSE b

\* x.k on a non-nullish x (a nullish x throws; the callers test that first)
Prop(x, k) ==
    IF x.t = "object" /\ k \in DOMAIN x.v THEN x.v[k] ELSE Undefined

\* Object.keys(x).length
KeyCount(x) == Cardinality(DOMAIN x.v)

\* x.length of an array
Length(x) == Len(x.v)

\* mutant of CountType: the predicate is dropped, every relation counts
CountAnyType(relations, type) == Len(relations.v)

\* relations.filter(r => r.type === type).length
CountType(relations, type) ==
    Len(SelectSeq(relations.v, LAMBDA r : Prop(r, "type") = Str(type)))

(***************************************************************************)
(* The schema each descriptor declares (field name -> type, description).  *)
(***************************************************************************)
\* schema of the object createDynamicEntityFactRetriever returns
FactorySchema ==
    [
      entity |->
        [type |-> "object",
         description |-> "Complete entity object with all properties accessible via JSONPath"],
      kind |->
        [type |-> "string",
         description |-> "Entity kind (e.g., Component, API, Resource)"],
      name |->
        [type |-> "string",
         description |-> "Entity name from metadata.name"],
      namespace |->
        [type |-> "string",
         description |-> "Entity namespace from metadata.namespace"],
      metadata |->
        [type |-> "object",
         description |-> "Entity metadata object containing title, description, annotations, labels, etc."],
      annotations |->
        [type |-> "object",
         description |-> "Entity annotations object (metadata.annotations)"],
      labels |->
        [type |-> "object",
         description |-> "Entity labels object (metadata.labels)"],
      title |->
        [type |-> "string",
         description |-> "Entity title from metadata.title"],
      description |->
        [type |-> "string",
         description |-> "Entity description from metadata.description"],
      tags |->
        [type |-> "object",
         description |-> "Entity tags array from metadata.tags"],
      spec |->
        [type |-> "object",
         description |-> "Entity spec object containing type, lifecycle, owner, etc."],
      owner |->
        [type |-> "string",
         description |-> "Entity owner from spec.owner"],
      lifecycle |->
        [type |-> "string",
         description |-> "Entity lifecycle from spec.lifecycle"],
      type |->
        [type |-> "string",
         description |-> "Entity type from spec.type"],
      system |->
        [type |-> "string",
         description |-> "Entity system from spec.system"],
      relations |->
        [type |-> "object",
         description |-> "Entity relations array for dependency and ownership analysis"],
      status |->
        [type |-> "object",
         description |-> "Entity status object"],
      hasTitle |->
        [type |-> "boolean",
         description |-> "Boolean indicating if entity has a title"],
      hasDescription |->
        [type |-> "boolean",
         description |-> "Boolean indicating if entity has a description"],
      hasTags |->
        [type |-> "boolean",
         description |-> "Boolean indicating if entity has tags"],
      hasOwner |->
        [type |-> "boolean",
         description |-> "Boolean indicating if entity has an owner"],
      hasAnnotations |->
        [type |-> "boolean",
         description |-> "Boolean indicating if entity has annotations"],
      hasLabels |->
        [type |-> "boolean",
         description |-> "Boolean indicating if entity has labels"],
      relationCount |->
        [type |-> "integer",
         description |-> "Total number of relations"],
      dependencyCount |->
        [type |-> "integer",
         description |-> "Number of dependsOn relations"],
      dependentCount |->
        [type |-> "integer",
         description |-> "Number of dependencyOf relations"],
      links |->
        [type |-> "object",
         description |-> "Entity links array from metadata.links"],
      linkCount |->
        [type |-> "integer",
         description |-> "Number of links defined"]
    ]

\* schema of the statically declared dynamicEntityFactRetriever
StaticSchema ==
    [
      entity |->
        [type |-> "object",
         description |-> "Complete entity object with all properties accessible via JSONPath"],
      kind |->
        [type |-> "string",
         description |-> "Entity kind (e.g., Component, API, Resource)"],
      name |->
        [type |-> "string",
         description |-> "Entity name from metadata.name"],
      namespace |->
        [type |-> "string",
         description |-> "Entity namespace from metadata.namespace"],
      metadata |->
        [type |-> "object",
         description |-> "Entity metadata object containing title, description, annotations, labels, etc."],
      annotations |->
        [type |-> "object",
         description |-> "Entity annotations object (metadata.annotations)"],
      labels |->
        [type |-> "object",
         description |-> "Entity labels object (metadata.labels)"],
      title |->
        [type |-> "string",
         description |-> "Entity title from metadata.title"],
      description |->
        [type |-> "string",
         description |-> "Entity description from metadata.description"],
      tags |->
        [type |-> "array",
         description |-> "Entity tags array from metadata.tags"],
      spec |->
        [type |-> "object",
         description |-> "Entity spec object containing type, lifecycle, owner, etc."],
      owner |->
        [type |-> "string",
         description |-> "Entity owner from spec.owner"],
      lifecycle |->
        [type |-> "string",
         description |-> "Entity lifecycle from spec.lifecycle"],
      type |->
        [type |-> "string",
         description |-> "Entity type from spec.type"],
      system |->
        [type |-> "string",
         description |-> "Entity system from spec.system"],
      relations |->
        [type |-> "array",
         description |-> "Entity relations array for dependency and ownership analysis"],
      status |->
        [type |-> "object",
         description |-> "Entity status object"],
      hasTitle |->
        [type |-> "boolean",
         description |-> "Boolean indicating if entity has a title"],
      hasDescription |->
        [type |-> "boolean",
         description |-> "Boolean indicating if entity has a description"],
      hasTags |->
        [type |-> "boolean",
         description |-> "Boolean indicating if entity has tags"],
      hasOwner |->
        [type |-> "boolean",
         description |-> "Boolean indicating if entity has an owner"],
      hasAnnotations |->
        [type |-> "boolean",
         description |-> "Boolean indicating if entity has annotations"],
      hasLabels |->
        [type |-> "boolean",
         description |-> "Boolean indicating if entity has labels"],
      relationCount |->
        [type |-> "number",
         description |-> "Total number of relations"],
      dependencyCount |->
        [type |-> "number",
         description |-> "Number of dependsOn relations"],
      dependentCount |->
        [type |-> "number",
         description |-> "Number of dependencyOf relations"],
      links |->
        [type |-> "array",
         description |-> "Entity links array from metadata.links"],
      linkCount |->
        [type |-> "number",
         description |-> "Number of links defined"]
    ]

(***************************************************************************)
(* The map callback: one catalog entity -> one fact record.                *)
(***************************************************************************)
\* mutant of ToBoolean: tests presence (x !== undefined), not truthiness
ToBooleanPresence(x) == Bool(x # Undefined)

\* Boolean(x), as in hasTitle / hasDescription / hasOwner
ToBoolean(x) == Bool(Truthy(x))

\* tags.length > 0, Object.keys(annotations).length > 0
NonEmptyArray(x) == Bool(Length(x) > 0)
NonEmptyObject(x) == Bool(KeyCount(x) > 0)

\* entity: { namespace: entity.metadata.namespace!, kind, name }.  The
\* postfix ! is erased by the compiler: the value is read as it is stored.
EntityRef(entity) ==
    Obj([namespace |-> Prop(Prop(entity, "metadata"), "namespace"),
         kind |-> Prop(entity, "kind"),
         name |-> Prop(Prop(entity, "metadata"), "name")])

\* facts: { ... } of the factory's handler
FactoryFacts(entity) ==
    LET metadata == Or(Prop(entity, "metadata"), EmptyObject)
        spec == Or(Prop(entity, "spec"), EmptyObject)
        relations == Or(Prop(entity, "relations"), EmptyArray)
        status == Or(Prop(entity, "status"), EmptyObject)
        annotations == Or(Prop(metadata, "annotations"), EmptyObject)
        labels == Or(Prop(metadata, "labels"), EmptyObject)
        tags == Or(Prop(metadata, "tags"), EmptyArray)
        links == Or(Prop(metadata, "links"), EmptyArray)
        dependencyCount == CountType(relations, "dependsOn")
        dependentCount == CountType(relations, "dependencyOf")
    IN  Obj([entity |-> entity,
             kind |-> Prop(entity, "kind"),
             name |-> Prop(metadata, "name"),
             namespace |-> Or(Prop(metadata, "namespace"), Str("default")),
             metadata |-> metadata,
             annotations |-> annotations,
             labels |-> labels,
             title |-> Or(Prop(metadata, "title"), Null),
             description |-> Or(Prop(metadata, "description"), Null),
             tags |-> tags,
             links |-> links,
             spec |-> spec,
             owner |-> Or(Prop(spec, "owner"), Null),
             lifecycle |-> Or(Prop(spec, "lifecycle"), Null),
             type |-> Or(Prop(spec, "type"), Null),
             system |-> Or(Prop(spec, "system"), Null),
             relations |-> relations,
             status |-> status,
             hasTitle |-> ToBoolean(Prop(metadata, "title")),
             hasDescription |-> ToBoolean(Prop(metadata, "description")),
             hasTags |-> NonEmptyArray(tags),
             hasOwner |-> ToBoolean(Prop(spec, "owner")),
             hasAnnotations |-> NonEmptyObject(annotations),
             hasLabels |-> NonEmptyObject(labels),
             relationCount |-> Num(Length(relations)),
             dependencyCount |-> Num(dependencyCount),
             dependentCount |-> Num(dependentCount),
             linkCount |-> Num(Length(links))])

\* facts: { ... } of the static retriever's handler (it emits no status)
StaticFacts(entity) ==
    LET metadata == Or(Prop(entity, "metadata"), EmptyObject)
        spec == Or(Prop(entity, "spec"), EmptyObject)
        relations == Or(Prop(entity, "relations"), EmptyArray)
        annotations == Or(Prop(metadata, "annotations"), EmptyObject)
        labels == Or(Prop(metadata, "labels"), EmptyObject)
        tags == Or(Prop(metadata, "tags"), EmptyArray)
        links == Or(Prop(metadata, "links"), EmptyArray)
        dependencyCount == CountType(relations, "dependsOn")
        dependentCount == CountType(relations, "dependencyOf")
    IN  Obj([entity |-> entity,
             kind |-> Prop(entity, "kind"),
             name |-> Prop(metadata, "name"),
             namespace |-> Or(Prop(metadata, "namespace"), Str("default")),
             metadata |-> metadata,
             annotations |-> annotations,
             labels |-> labels,
             title |-> Or(Prop(metadata, "title"), Null),
             description |-> Or(Prop(metadata, "description"), Null),
             tags |-> tags,
             links |-> links,
             spec |-> spec,
             owner |-> Or(Prop(spec, "owner"), Null),
             lifecycle |-> Or(Prop(spec, "lifecycle"), Null),
             type |-> Or(Prop(spec, "type"), Null),
             system |-> Or(Prop(spec, "system"), Null),
             relations |-> relations,
             hasTitle |-> ToBoolean(Prop(metadata, "title")),
             hasDescription |-> ToBoolean(Prop(metadata, "description")),
             hasTags |-> NonEmptyArray(tags),
             hasOwner |-> ToBoolean(Prop(spec, "owner")),
             hasAnnotations |-> NonEmptyObject(annotations),
             hasLabels |-> NonEmptyObject(labels),
             relationCount |-> Num(Length(relations)),
             dependencyCount |-> Num(dependencyCount),
             dependentCount |-> Num(dependentCount),
             linkCount |-> Num(Length(links))])

\* The callback passed to entities.items.map by the handler `impl`.  Reading
\* entity.metadata.namespace throws a TypeError when entity.metadata is
\* undefined or null; nothing else in the callback throws.
Transform(impl, entity, now) ==
    IF IsNullish(Prop(entity, "metadata"))
    THEN TypeError
    ELSE Obj([entity |-> EntityRef(entity),
              facts |-> IF impl = "factory"
                        THEN FactoryFacts(entity)
                        ELSE StaticFacts(entity),
              timestamp |-> Num(now)])

\* entities.items.map(callback): left to right, the first throw ends it
RECURSIVE MapFrom(_, _, _, _, _)
MapFrom(impl, its, now, k, acc) ==
    IF k > Len(its)
    THEN Arr(acc)
    ELSE LET r == Transform(impl, its[k], now)
         IN  IF r = TypeError
             THEN TypeError
             ELSE MapFrom(impl, its, now, k + 1, Append(acc, r))

\* mutant of MapEntities: a throwing entity is skipped, the rest delivered
MapEntitiesSkipping(impl, its, now) ==
    LET ok == SelectSeq(its, LAMBDA e : Transform(impl, e, now) # TypeError)
    IN  Arr([k \in 1..Len(ok) |-> Transform(impl, ok[k], now)])

MapEntities(impl, its, now) == MapFrom(impl, its, now, 1, <<>>)

(***************************************************************************)
(* Descriptors: the factory, its default instance, its presets, a custom   *)
(* instance and the statically declared retriever.  `handler` holds what   *)
(* the handler closure captured at construction.                           *)
(***************************************************************************)
createDynamicEntityFactRetriever(entityFilterConfig, factRetrieverId) ==
    [id |-> factRetrieverId,
     version |-> "0.1.0",
     title |-> IF Truthy(entityFilterConfig)
               THEN "Dynamic Entity Properties (Filtered)"
               ELSE "Dynamic Entity Properties",
     description |-> IF Truthy(entityFilterConfig)
                     THEN "Dynamic entity fact retriever with entity filtering"
                     ELSE "Dynamic entity fact retriever",
     schema |-> FactorySchema,
     handler |-> [impl |-> "factory",
                  entityFilterConfig |-> entityFilterConfig,
                  factRetrieverId |-> factRetrieverId]]

\* createFilteredDynamicFactRetriever(filter, id)
createFilteredDynamicFactRetriever(filter, id) ==
    createDynamicEntityFactRetriever(filter, id)

\* export const dynamicEntityFactRetriever: FactRetriever = { ... }
StaticRetriever ==
    [id |-> "dynamicEntityFactRetriever",
     version |-> "0.1.0",
     title |-> "Dynamic Entity Properties",
     description |-> "Exposes complete entity structure for dynamic property checking via JSONPath expressions",
     schema |-> StaticSchema,
     handler |-> [impl |-> "static",
                  entityFilterConfig |-> Undefined,
                  factRetrieverId |-> "dynamicEntityFactRetriever"]]

ComponentsFilter == Obj([kind |-> Arr(<<Str("Component")>>)])
ProductionFilter == Obj("spec.lifecycle" :> Str("production"))
APIsFilter == Obj([kind |-> Arr(<<Str("API")>>)])
ServicesFilter ==
    Obj([kind |-> Arr(<<Str("Component")>>)] @@ ("spec.type" :> Str("service")))

\* The module-level exports, evaluated once at load.  "customRetriever" is a
\* caller's createFilteredDynamicFactRetriever({}, 'customRetriever'): an
\* empty filter object is still a configured (truthy) filter.
Exports ==
    [dynamicEntityFactRetriever |->
        createDynamicEntityFactRetriever(Undefined, "dynamicEntityFactRetriever"),
     dynamicEntityFactRetrieverComponents |->
        createDynamicEntityFactRetriever(ComponentsFilter,
                                         "dynamicEntityFactRetrieverComponents"),
     dynamicEntityFactRetrieverProduction |->
        createDynamicEntityFactRetriever(ProductionFilter,
                                         "dynamicEntityFactRetrieverProduction"),
     dynamicEntityFactRetrieverAPIs |->
        createDynamicEntityFactRetriever(APIsFilter,
                                         "dynamicEntityFactRetrieverAPIs"),
     dynamicEntityFactRetrieverServices |->
        createDynamicEntityFactRetriever(ServicesFilter,
                                         "dynamicEntityFactRetrieverServices"),
     customRetriever |->
        createFilteredDynamicFactRetriever(EmptyObject, "customRetriever"),
     staticDynamicEntityFactRetriever |-> StaticRetriever]

FactoryExports == {d \in DOMAIN Exports : Exports[d].handler.impl = "factory"}

(***************************************************************************)
(* Inputs of a handler invocation.                                         *)
(***************************************************************************)
\* context.entityFilter as the runner supplies it: absent, or a filter
ContextFilters == {Undefined, APIsFilter}

Times == 0..MaxClock

\* The spec's end-to-end entity; an entity without metadata.namespace; an
\* entity without metadata.
SvcEntity ==
    Obj([kind |-> Str("Component"),
         metadata |-> Obj([name |-> Str("svc"),
                           namespace |-> Str("default"),
                           tags |-> Arr(<<Str("java")>>)]),
         spec |-> Obj([owner |-> Str("team-a"),
                       lifecycle |-> Str("production")]),
         relations |-> Arr(<<Obj([type |-> Str("dependsOn"), targetRef |-> Str("x")]),
                             Obj([type |-> Str("dependsOn"), targetRef |-> Str("y")]),
                             Obj([type |-> Str("dependencyOf"), targetRef |-> Str("z")])>>)])

ApiEntity ==
    Obj([kind |-> Str("API"), metadata |-> Obj([name |-> Str("api")])])

BareEntity == Obj([kind |-> Str("Component")])

CatalogEntities == {SvcEntity, ApiEntity, BareEntity}

\* entities.items of one response: distinct catalog entities in any order
Responses ==
    {its \in UNION {[1..n -> CatalogEntities] : n \in 0..MaxItems} :
        \A a, b \in 1..Len(its) : a # b => its[a] # its[b]}

(***************************************************************************)
(* The handler: async ({discovery, entityFilter, auth, logger}) => ...     *)
(***************************************************************************)
\* mutant of FinalEntityFilter: the operands of || are swapped
FinalEntityFilterContextFirst(entityFilterConfig, entityFilter) ==
    Or(entityFilter, entityFilterConfig)

\* const finalEntityFilter = entityFilterConfig || entityFilter
FinalEntityFilter(entityFilterConfig, entityFilter) ==
    Or(entityFilterConfig, entityFilter)

\* mutant of HandlerOf: the configuration lives in one module-level slot
\* that the last factory call at load time overwrote
HandlerOfLastCreated(i) ==
    [descriptors["dynamicEntityFactRetrieverServices"].handler
        EXCEPT !.impl = descriptors[desc[i]].handler.impl]

\* the closure of the descriptor invocation i runs
HandlerOf(i) == descriptors[desc[i]].handler

\* the filter the handler passes to getEntities
QueryFilter(i) ==
    IF HandlerOf(i).impl = "factory"
    THEN FinalEntityFilter(HandlerOf(i).entityFilterConfig, ctx[i].entityFilter)
    ELSE ctx[i].entityFilter

\* logger?.info(`${factRetrieverId} using ... entity filter:`, finalEntityFilter)
FilterLog(i) ==
    IF HandlerOf(i).impl # "factory"
    THEN <<>>
    ELSE <<[id |-> HandlerOf(i).factRetrieverId,
            text |-> IF Truthy(HandlerOf(i).entityFilterConfig)
                     THEN "using configured entity filter:"
                     ELSE "using context entity filter:",
            arg |-> QueryFilter(i)]>>

\* logger?.info(`${factRetrieverId} processed ${entities.items.length} entities`)
ProcessedLog(i, its) ==
    IF HandlerOf(i).impl # "factory"
    THEN <<>>
    ELSE <<[id |-> HandlerOf(i).factRetrieverId,
            text |-> "processed entities",
            arg |-> Num(Len(its))]>>

Init ==
    /\ descriptors = Exports
    /\ pc = [i \in Invocations |-> "idle"]
    /\ desc = [i \in Invocations |-> "dynamicEntityFactRetriever"]
    /\ ctx = [i \in Invocations |-> [entityFilter |-> Undefined]]
    /\ token = [i \in Invocations |-> Undefined]
    /\ calls = [i \in Invocations |-> <<>>]
    /\ query = [i \in Invocations |-> Undefined]
    /\ items = [i \in Invocations |-> Undefined]
    /\ returned = [i \in Invocations |-> Undefined]
    /\ error = [i \in Invocations |-> Undefined]
    /\ logs = [i \in Invocations |-> <<>>]
    /\ tEntity = Undefined
    /\ tRecord = [factory |-> Undefined, static |-> Undefined]

\* The runner calls descriptor.handler(context); the handler runs up to its
\* first await, having called auth.getOwnServiceCredentials().
Invoke(i) ==
    /\ pc[i] = "idle"
    /\ \E d \in DOMAIN descriptors, f \in ContextFilters :
          /\ desc' = [desc EXCEPT ![i] = d]
          /\ ctx' = [ctx EXCEPT ![i] = [entityFilter |-> f]]
    /\ calls' = [calls EXCEPT ![i] = Append(@, "getOwnServiceCredentials")]
    /\ pc' = [pc EXCEPT ![i] = "getOwnServiceCredentials"]
    /\ UNCHANGED <<descriptors, token, query, items, returned, error, logs>>
    /\ UNCHANGED transformVars

\* await auth.getOwnServiceCredentials() resolves: getPluginRequestToken is
\* called with the credentials.
CredentialsResolve(i) ==
    /\ pc[i] = "getOwnServiceCredentials"
    /\ calls' = [calls EXCEPT ![i] = Append(@, "getPluginRequestToken")]
    /\ pc' = [pc EXCEPT ![i] = "getPluginRequestToken"]
    /\ UNCHANGED <<descriptors, desc, ctx, token, query, items, returned,
                   error, logs>>
    /\ UNCHANGED transformVars

\* await auth.getOwnServiceCredentials() rejects: the handler rejects.
CredentialsReject(i) ==
    /\ pc[i] = "getOwnServiceCredentials"
    /\ pc' = [pc EXCEPT ![i] = "rejected"]
    /\ error' = [error EXCEPT ![i] = Str("getOwnServiceCredentials failed")]
    /\ UNCHANGED <<descriptors, desc, ctx, token, calls, query, items,
                   returned, logs>>
    /\ UNCHANGED transformVars

\* await auth.getPluginRequestToken(...) resolves: the filter is resolved and
\* logged, and catalogClient.getEntities({filter}, {token}) is called.
TokenResolve(i) ==
    /\ pc[i] = "getPluginRequestToken"
    /\ token' = [token EXCEPT ![i] = Str("catalog-token")]
    /\ logs' = [logs EXCEPT ![i] = @ \o FilterLog(i)]
    /\ query' = [query EXCEPT ![i] = Obj([filter |-> QueryFilter(i)])]
    /\ calls' = [calls EXCEPT ![i] = Append(@, "getEntities")]
    /\ pc' = [pc EXCEPT ![i] = "getEntities"]
    /\ UNCHANGED <<descriptors, desc, ctx, items, returned, error>>
    /\ UNCHANGED transformVars

\* await auth.getPluginRequestToken(...) rejects: the handler rejects.
TokenReject(i) ==
    /\ pc[i] = "getPluginRequestToken"
    /\ pc' = [pc EXCEPT ![i] = "rejected"]
    /\ error' = [error EXCEPT ![i] = Str("getPluginRequestToken failed")]
    /\ UNCHANGED <<descriptors, desc, ctx, token, calls, query, items,
                   returned, logs>>
    /\ UNCHANGED transformVars

\* What the handler does with a fetched response: the count is logged, the
\* items are mapped; a throwing callback rejects the handler's promise.
Settle(i, its, now) ==
    LET out == MapEntities(HandlerOf(i).impl, its, now)
    IN  /\ items' = [items EXCEPT ![i] = Arr(its)]
        /\ logs' = [logs EXCEPT ![i] = @ \o ProcessedLog(i, its)]
        /\ IF out = TypeError
           THEN /\ pc' = [pc EXCEPT ![i] = "rejected"]
                /\ error' = [error EXCEPT ![i] = TypeError]
                /\ UNCHANGED returned
           ELSE /\ pc' = [pc EXCEPT ![i] = "resolved"]
                /\ returned' = [returned EXCEPT ![i] = out]
                /\ UNCHANGED error

\* await catalogClient.getEntities(...) resolves with {items}.  The map
\* pass is synchronous; its DateTime.now() reads fall in one clock tick.
EntitiesResolve(i) ==
    /\ pc[i] = "getEntities"
    /\ \E its \in Responses, now \in Times : Settle(i, its, now)
    /\ UNCHANGED <<descriptors, desc, ctx, token, calls, query>>
    /\ UNCHANGED transformVars

\* mutant of EntitiesReject: a failed fetch is retried
EntitiesRejectRetry(i) ==
    /\ pc[i] = "getEntities"
    /\ Len(calls[i]) < 5
    /\ calls' = [calls EXCEPT ![i] = Append(@, "getEntities")]
    /\ UNCHANGED <<descriptors, pc, desc, ctx, token, query, items, returned,
                   error, logs>>
    /\ UNCHANGED transformVars

\* await catalogClient.getEntities(...) rejects: the handler rejects, and
\* nothing in it calls the catalog again.
EntitiesReject(i) ==
    /\ pc[i] = "getEntities"
    /\ pc' = [pc EXCEPT ![i] = "rejected"]
    /\ error' = [error EXCEPT ![i] = Str("getEntities failed")]
    /\ UNCHANGED <<descriptors, desc, ctx, token, calls, query, items,
                   returned, logs>>
    /\ UNCHANGED transformVars

Next ==
    \E i \in Invocations :
        \/ Invoke(i)
        \/ CredentialsResolve(i)
        \/ CredentialsReject(i)
        \/ TokenResolve(i)
        \/ TokenReject(i)
        \/ EntitiesResolve(i)
        \/ EntitiesReject(i)

Spec == Init /\ [][Next]_vars

(***************************************************************************)
(* The map callback on its own: one entity drawn from a bounded family,    *)
(* pushed through the callback of each retriever.                          *)
(*                                                                         *)
(* The callback reads metadata, spec, relations and status independently,  *)
(* so the family varies one of them exhaustively at a time and pairs it    *)
(* with an absent and with a populated version of the others.              *)
(***************************************************************************)
Absent == [t |-> "absent"]    \* generator marker: the property is not set

With(f, k, v) == IF v = Absent THEN f ELSE (k :> v) @@ f

NamespaceChoices == {Absent, Null, Str(""), Str("default"), Str("prod")}
TitleChoices == {Absent, Str(""), Str("My Service")}
DescriptionChoices == {Absent, Str(""), Str("A service")}
TagsChoices == {Absent, EmptyArray, Arr(<<Str("java")>>)}
AnnotationsChoices ==
    {Absent, EmptyObject, Obj("backstage.io/techdocs-ref" :> Str("dir:."))}
LabelsChoices == {Absent, EmptyObject, Obj([tier |-> Str("1")])}
LinksChoices ==
    {Absent, Arr(<<Obj([url |-> Str("https://example.com"), title |-> Str("Docs")])>>)}
OwnerChoices == {Absent, Null, Str(""), Str("team-a")}
LifecycleChoices == {Absent, Str("production")}
TypeChoices == {Absent, Str("service")}
RelationTypes == {"dependsOn", "dependencyOf", "ownedBy"}

MetadataObjects ==
    {Obj(With(With(With(With(With(With(With([name |-> Str("svc")],
        "namespace", ns), "title", ti), "description", de), "tags", tg),
        "annotations", an), "labels", la), "links", li)) :
        ns \in NamespaceChoices, ti \in TitleChoices, de \in DescriptionChoices,
        tg \in TagsChoices, an \in AnnotationsChoices, la \in LabelsChoices,
        li \in LinksChoices}

SpecObjects ==
    {Obj(With(With(With(With(<<>>, "owner", ow), "lifecycle", lc), "type", ty),
        "system", IF ty = Absent THEN Absent ELSE Str("payments"))) :
        ow \in OwnerChoices, lc \in LifecycleChoices, ty \in TypeChoices}

RelationArrays ==
    UNION {{Arr([k \in 1..n |->
                   Obj([type |-> Str(ts[k]),
                        targetRef |-> Str("component:default/x")])]) :
               ts \in [1..n -> RelationTypes]} : n \in 0..MaxRelations}

FullMetadata ==
    Obj([name |-> Str("svc"), namespace |-> Str("default"),
         title |-> Str("My Service"), tags |-> Arr(<<Str("java")>>)])
FullSpec == Obj([owner |-> Str("team-a"), lifecycle |-> Str("production")])
FullRelations == SvcEntity.v.relations
FullStatus == Obj([items |-> EmptyArray])

MkEntity(kind, metadata, spec, relations, status) ==
    Obj(With(With(With(With([kind |-> Str(kind)], "metadata", metadata),
        "spec", spec), "relations", relations), "status", status))

TestEntities ==
    {MkEntity("Component", md, r[1], r[2], r[3]) :
        md \in MetadataObjects \cup {Absent, Null},
        r \in {<<Absent, Absent, Absent>>, <<FullSpec, FullRelations, FullStatus>>}}
    \cup
    {MkEntity("API", md, sp, rl, Absent) :
        md \in {FullMetadata, Obj([name |-> Str("api")])},
        sp \in SpecObjects \cup {Absent, Null},
        rl \in {Absent, FullRelations}}
    \cup
    {MkEntity("Component", md, sp, rl, Absent) :
        md \in {FullMetadata, Obj([name |-> Str("svc")])},
        sp \in {Absent, FullSpec},
        rl \in RelationArrays \cup {Absent}}

TransformInit ==
    /\ descriptors = Exports
    /\ pc = [i \in Invocations |-> "idle"]
    /\ desc = [i \in Invocations |-> "dynamicEntityFactRetriever"]
    /\ ctx = [i \in Invocations |-> [entityFilter |-> Undefined]]
    /\ token = [i \in Invocations |-> Undefined]
    /\ calls = [i \in Invocations |-> <<>>]
    /\ query = [i \in Invocations |-> Undefined]
    /\ items = [i \in Invocations |-> Undefined]
    /\ returned = [i \in Invocations |-> Undefined]
    /\ error = [i \in Invocations |-> Undefined]
    /\ logs = [i \in Invocations |-> <<>>]
    /\ tEntity \in TestEntities
    /\ tRecord = [factory |-> Undefined, static |-> Undefined]

\* the factory handler's callback applied to tEntity
RunFactoryTransform ==
    /\ tRecord.factory = Undefined
    /\ \E now \in Times :
          tRecord' = [tRecord EXCEPT !.factory = Transform("factory", tEntity, now)]
    /\ UNCHANGED tEntity
    /\ UNCHANGED handlerVars

\* the static handler's callback applied to tEntity
RunStaticTransform ==
    /\ tRecord.static = Undefined
    /\ \E now \in Times :
          tRecord' = [tRecord EXCEPT !.static = Transform("static", tEntity, now)]
    /\ UNCHANGED tEntity
    /\ UNCHANGED handlerVars

TransformNext == RunFactoryTransform \/ RunStaticTransform

TransformSpec == TransformInit /\ [][TransformNext]_vars

(***************************************************************************)
(* Properties.  They describe the entity and the invocation from the raw   *)
(* values, not through the operators of the handler.                       *)
(***************************************************************************)
HasKey(x, k) == x.t = "object" /\ k \in DOMAIN x.v
NonEmptyString(x, k) == HasKey(x, k) /\ x.v[k].t = "string" /\ x.v[k].v # ""
NonEmptySequence(x, k) == HasKey(x, k) /\ x.v[k].t = "array" /\ Len(x.v[k].v) > 0
NonEmptyMapping(x, k) == HasKey(x, k) /\ x.v[k].t = "object" /\ DOMAIN x.v[k].v # {}
Field(x, k) == IF HasKey(x, k) THEN x.v[k] ELSE Undefined
Impls == {"factory", "static"}
Produced(r) == r.t = "object"

\* the filter given at construction / at invocation, and the one queried
ConfiguredFilter(i) == descriptors[desc[i]].handler.entityFilterConfig
ContextFilter(i) == ctx[i].entityFilter
UsedFilter(i) == Field(query[i], "filter")

\* C1: a factory-built descriptor queries the catalog with its configured
\* filter whenever it has one, whatever the context supplies; with the
\* context's filter only when none was configured; and with no filter only
\* when neither was given.
C1_FilterPrecedence ==
    \A i \in Invocations :
        (desc[i] \in FactoryExports /\ query[i] # Undefined) =>
            /\ ConfiguredFilter(i) # Undefined => UsedFilter(i) = ConfiguredFilter(i)
            /\ ConfiguredFilter(i) = Undefined => UsedFilter(i) = ContextFilter(i)
            /\ UsedFilter(i) = Undefined <=>
                  (ConfiguredFilter(i) = Undefined /\ ContextFilter(i) = Undefined)

\* {kind:['Component']} configured, {kind:['API']} supplied, getEntities issued
C1_Witness ==
    \E i \in Invocations :
        /\ pc[i] = "getEntities"
        /\ desc[i] = "dynamicEntityFactRetrieverComponents"
        /\ ContextFilter(i) = APIsFilter
        /\ UsedFilter(i) = ComponentsFilter

NamespaceMissing(e) ==
    /\ HasKey(e, "metadata")
    /\ e.v.metadata.t = "object"
    /\ IsNullish(Field(e.v.metadata, "namespace"))

\* C2: an invocation whose response holds an entity with metadata but no
\* metadata.namespace fails as a whole and returns no records.
C2_MissingNamespaceFails ==
    \A i \in Invocations :
        (items[i] # Undefined
            /\ \E k \in 1..Len(items[i].v) : NamespaceMissing(items[i].v[k]))
        => (pc[i] = "rejected" /\ returned[i] = Undefined)

\* C3: a present (string) metadata.namespace is what both facts.namespace
\* and the entity reference carry; the reference is never a substitute.
C3_NamespaceFaithful ==
    \A impl \in Impls :
        Produced(tRecord[impl]) =>
            LET stored == Field(tEntity.v.metadata, "namespace")
                rec == tRecord[impl].v
            IN  /\ stored.t = "string" =>
                      /\ rec.facts.v.namespace = stored
                      /\ rec.entity.v.namespace = stored
                /\ rec.entity.v.namespace = stored
                /\ IsNullish(stored) => rec.facts.v.namespace = Str("default")

\* C4: the keys of facts are exactly the fields the descriptor's schema
\* declares.
C4_FactsMatchSchema ==
    \A d \in DOMAIN descriptors :
        LET r == tRecord[descriptors[d].handler.impl]
        IN  Produced(r) => DOMAIN r.v.facts.v = DOMAIN descriptors[d].schema

\* field -> declared kind, as published
PublishedKinds ==
    [entity |-> "object", kind |-> "string", name |-> "string",
     namespace |-> "string", metadata |-> "object", annotations |-> "object",
     labels |-> "object", title |-> "string", description |-> "string",
     tags |-> "array", spec |-> "object", owner |-> "string",
     lifecycle |-> "string", type |-> "string", system |-> "string",
     relations |-> "array", status |-> "object", hasTitle |-> "boolean",
     hasDescription |-> "boolean", hasTags |-> "boolean",
     hasOwner |-> "boolean", hasAnnotations |-> "boolean",
     hasLabels |-> "boolean", relationCount |-> "number",
     dependencyCount |-> "number", dependentCount |-> "number",
     links |-> "array", linkCount |-> "number"]

\* C5: every factory-built descriptor declares the same schema, and each
\* field's declared kind is the published one.
C5_SchemaPublished ==
    \A d \in FactoryExports :
        /\ descriptors[d].schema = descriptors["dynamicEntityFactRetriever"].schema
        /\ DOMAIN descriptors[d].schema = DOMAIN PublishedKinds
        /\ \A f \in DOMAIN PublishedKinds :
              descriptors[d].schema[f].type = PublishedKinds[f]

\* the relations the entity stores, and how many of them have a type in S
StoredRelations == Field(tEntity, "relations")
RelationsOfType(S) ==
    IF StoredRelations.t # "array"
    THEN 0
    ELSE Cardinality({k \in 1..Len(StoredRelations.v) :
                         StoredRelations.v[k].v.type.v \in S})

\* C6: dependencyCount, dependentCount and relationCount are the numbers of
\* dependsOn relations, of dependencyOf relations and of all relations.
C6_RelationCounts ==
    \A impl \in Impls :
        Produced(tRecord[impl]) =>
            LET facts == tRecord[impl].v.facts.v
                n1 == RelationsOfType({"dependsOn"})
                n2 == RelationsOfType({"dependencyOf"})
                n3 == RelationsOfType(RelationTypes \ {"dependsOn", "dependencyOf"})
            IN  /\ facts.dependencyCount = Num(n1)
                /\ facts.dependentCount = Num(n2)
                /\ facts.relationCount = Num(n1 + n2 + n3)
                /\ facts.dependencyCount.v + facts.dependentCount.v
                      <= facts.relationCount.v

\* one relation of each type, counted
C6_Witness ==
    /\ Produced(tRecord.factory)
    /\ RelationsOfType({"dependsOn"}) = 1
    /\ RelationsOfType({"dependencyOf"}) = 1
    /\ RelationsOfType({"ownedBy"}) = 1
    /\ tRecord.factory.v.facts.v.relationCount = Num(3)

\* C7: each has* flag is true exactly when its source field is present and
\* non-empty.
C7_PresenceFlags ==
    \A impl \in Impls :
        Produced(tRecord[impl]) =>
            LET facts == tRecord[impl].v.facts.v
                md == tEntity.v.metadata
                sp == Field(tEntity, "spec")
            IN  /\ facts.hasTags = Bool(NonEmptySequence(md, "tags"))
                /\ facts.hasAnnotations = Bool(NonEmptyMapping(md, "annotations"))
                /\ facts.hasLabels = Bool(NonEmptyMapping(md, "labels"))
                /\ facts.hasTitle = Bool(NonEmptyString(md, "title"))
                /\ facts.hasDescription = Bool(NonEmptyString(md, "description"))
                /\ facts.hasOwner = Bool(NonEmptyString(sp, "owner"))

\* an empty title and an empty labels object give false, a tag gives true
C7_Witness ==
    /\ Produced(tRecord.static)
    /\ Field(tEntity.v.metadata, "title") = Str("")
    /\ Field(tEntity.v.metadata, "labels") = EmptyObject
    /\ NonEmptySequence(tEntity.v.metadata, "tags")
    /\ NonEmptyString(Field(tEntity, "spec"), "owner")
    /\ tRecord.static.v.facts.v.hasTitle = Bool(FALSE)
    /\ tRecord.static.v.facts.v.hasLabels = Bool(FALSE)
    /\ tRecord.static.v.facts.v.hasTags = Bool(TRUE)
    /\ tRecord.static.v.facts.v.hasOwner = Bool(TRUE)

CallOrder == <<"getOwnServiceCredentials", "getPluginRequestToken", "getEntities">>
IsPrefix(s, t) == Len(s) <= Len(t) /\ \A k \in 1..Len(s) : s[k] = t[k]
IssuedGetEntities(i) == \E k \in 1..Len(calls[i]) : calls[i][k] = "getEntities"
AuthFailed(i) ==
    error[i] \in {Str("getOwnServiceCredentials failed"),
                  Str("getPluginRequestToken failed")}

\* C8: the external calls of an invocation are a prefix of credentials,
\* token, getEntities; getEntities needs the token and is issued at most
\* once; a failed credential acquisition leaves no getEntities call.
C8_CallSequence ==
    \A i \in Invocations :
        /\ IsPrefix(calls[i], CallOrder)
        /\ IssuedGetEntities(i) => token[i] # Undefined
        /\ Cardinality({k \in 1..Len(calls[i]) : calls[i][k] = "getEntities"}) <= 1
        /\ AuthFailed(i) => ~IssuedGetEntities(i)

\* one invocation stopped at the credentials, another failed its one fetch
C8_Witness ==
    \E i, j \in Invocations :
        /\ error[i] = Str("getOwnServiceCredentials failed")
        /\ calls[i] = <<"getOwnServiceCredentials">>
        /\ error[j] = Str("getEntities failed")
        /\ calls[j] = CallOrder

\* C9: an invocation returns one record per fetched entity, in the fetched
\* order, or it fails and returns nothing.
C9_AllOrNothing ==
    \A i \in Invocations :
        /\ pc[i] = "resolved" =>
              /\ returned[i].t = "array"
              /\ Len(returned[i].v) = Len(items[i].v)
              /\ \A k \in 1..Len(items[i].v) :
                    /\ Produced(returned[i].v[k])
                    /\ returned[i].v[k].v.facts.v.entity = items[i].v[k]
                    /\ returned[i].v[k].v.entity.v.name
                          = Field(items[i].v[k].v.metadata, "name")
        /\ pc[i] # "resolved" => returned[i] = Undefined
        /\ pc[i] = "rejected" => error[i] # Undefined

\* one invocation returned two records in fetched order; another fetched a
\* good and a bad entity and returned nothing
C9_Witness ==
    \E i, j \in Invocations :
        /\ pc[i] = "resolved"
        /\ items[i] = Arr(<<ApiEntity, SvcEntity>>)
        /\ pc[j] = "rejected"
        /\ items[j] = Arr(<<SvcEntity, BareEntity>>)
        /\ error[j] = TypeError

\* what invocation i owes to its own descriptor, context and response
OwnQueryAndResult(i) ==
    LET h == descriptors[desc[i]].handler
    IN  /\ query[i] # Undefined =>
              UsedFilter(i) = IF h.impl = "factory" /\ h.entityFilterConfig # Undefined
                              THEN h.entityFilterConfig
                              ELSE ContextFilter(i)
        /\ \A k \in 1..Len(logs[i]) : logs[i][k].id = descriptors[desc[i]].id
        /\ pc[i] = "resolved" =>
              /\ Len(returned[i].v) = Len(items[i].v)
              /\ \A k \in 1..Len(items[i].v) :
                    returned[i].v[k].v.facts.v.entity = items[i].v[k]

\* C10: under every interleaving each invocation queries with the filter
\* of its own descriptor and context and returns the records of its own
\* response, and no step changes a descriptor.
C10_InvocationsIndependent ==
    /\ [](\A i \in Invocations : OwnQueryAndResult(i))
    /\ [][descriptors' = descriptors]_vars

\* two invocations of different descriptors in flight together: one still
\* awaits its fetch, the other has returned the records of its own
C10_Witness ==
    /\ pc["inv1"] = "getEntities"
    /\ pc["inv2"] = "resolved"
    /\ desc["inv1"] = "dynamicEntityFactRetrieverAPIs"
    /\ desc["inv2"] = "dynamicEntityFactRetrieverComponents"
    /\ UsedFilter("inv1") = APIsFilter
    /\ UsedFilter("inv2") = ComponentsFilter
    /\ Len(returned["inv2"].v) = 2

=============================================================================
